---- MODULE Spec2Model ----
(***************************************************************************)
(* Model of the computational core of RandyGuineaPigs.py:                  *)
(*   simulate_matings  (one run of the stochastic mating loop)             *)
(*   run_simulations   (the batch driver that flattens the runs)           *)
(* Probabilities are held in percent (0.5 -> 50); a draw of                *)
(* random.random() is a percent value in [0, 100).                         *)
(***************************************************************************)
EXTENDS Integers, Sequences, FiniteSets, TLC

\* ---- bounds of the model ------------------------------------------------
MaxFemales == 2
MaxTarget == 2
MaxSimulations == 2
\* trials of one batch that do not end in a conception (the loop itself is
\* unbounded; only these trials are capped, conceptions never are)
MaxWasted == 2

\* ---- input domains ------------------------------------------------------
FemaleCounts == (-1)..MaxFemales
Targets == 0..MaxTarget
SimulationCounts == (-1)..MaxSimulations
\* 0.0, 0.5, 1.0 and the out-of-range values -0.5 and 1.5
PregnancyChances == {-50, 0, 50, 100, 150}
PregnantChances == {0, 100, 150}
\* values random.random() can return, all in [0, 1)
Draws == {0, 50, 99}

NoSow == -1

VARIABLES
    n_females, target_pregnancies, simulations,   \* arguments
    pregnancy_chance, pregnant_chance,            \* arguments (percent)
    pc,                 \* "for" | "while" | "append" | "done"
    sim,                \* loop variable of run_simulations
    knocked_up,         \* set of pregnant sows of the current run
    shag_stats,         \* sow -> counters of the current run
    lucky_sow,          \* sow selected by the last trial
    already_preggers,   \* whether she was pregnant when selected
    all_matings,        \* rows collected so far
    wasted              \* model only: trials so far without a conception

config == <<n_females, target_pregnancies, simulations,
            pregnancy_chance, pregnant_chance>>
vars == <<n_females, target_pregnancies, simulations, pregnancy_chance,
          pregnant_chance, pc, sim, knocked_up, shag_stats, lucky_sow,
          already_preggers, all_matings, wasted>>

\* ---- helpers ------------------------------------------------------------
Min(a, b) == IF a < b THEN a ELSE b

\* range(n) as the sequence it iterates: 0, 1, ..., n-1 (empty for n <= 0)
PyRange(n) == [i \in 1..n |-> i - 1]

\* the keys of shag_stats / the values random.randint(0, n_females-1) takes
Sows == {PyRange(n_females)[i] : i \in 1..Len(PyRange(n_females))}

ZeroStats == [total |-> 0, while_pregnant |-> 0, while_unpregnant |-> 0]

\* the dict comprehension of simulate_matings
NewShagStats == [sow \in Sows |-> ZeroStats]

\* variant: the items come out in reverse insertion order
ItemsReversed(log) ==
    [i \in 1..Len(PyRange(n_females)) |->
       <<PyRange(n_females)[Len(PyRange(n_females)) + 1 - i],
         log[PyRange(n_females)[Len(PyRange(n_females)) + 1 - i]]>>]

\* session_log.items(): a dict iterates in insertion order, i.e. range order
Items(log) == [i \in 1..Len(PyRange(n_females)) |->
                 <<PyRange(n_females)[i], log[PyRange(n_females)[i]]>>]

RECURSIVE SumTotal(_, _)
SumTotal(stats, S) ==
    IF S = {} THEN 0
    ELSE LET s == CHOOSE x \in S : TRUE
         IN stats[s].total + SumTotal(stats, S \ {s})

\* trials of the current run that did not make a sow pregnant
Wasted == SumTotal(shag_stats, DOMAIN shag_stats) - Cardinality(knocked_up)

\* variant: the loop tests <= instead of <
LoopCondInclusive ==
    Cardinality(knocked_up) <= Min(target_pregnancies, n_females)

\* the while condition of simulate_matings
LoopCond == Cardinality(knocked_up) < Min(target_pregnancies, n_females)

\* variant: the total is only counted on the else branch
BumpTotalInElse(stats, preggers) ==
    [stats EXCEPT !.total = IF preggers THEN @ ELSE @ + 1,
                  !.while_pregnant = IF preggers THEN @ + 1 ELSE @,
                  !.while_unpregnant = IF preggers THEN @ ELSE @ + 1]

\* variant: the two branches of the if are exchanged
BumpSwapped(stats, preggers) ==
    [stats EXCEPT !.total = @ + 1,
                  !.while_pregnant = IF preggers THEN @ ELSE @ + 1,
                  !.while_unpregnant = IF preggers THEN @ + 1 ELSE @]

\* the counter updates of one trial (lines 38-42)
Bump(stats, preggers) ==
    [stats EXCEPT !.total = @ + 1,
                  !.while_pregnant = IF preggers THEN @ + 1 ELSE @,
                  !.while_unpregnant = IF preggers THEN @ ELSE @ + 1]

\* variant: the comparison with the odds is <= instead of <
ConceivesInclusive(preggers, roll, odds) == ~preggers /\ roll <= odds

\* variant: the "not" of line 44 is lost
ConceivesOnlyPregnant(preggers, roll, odds) == preggers /\ roll < odds

\* lines 44-45: the roll is made only for a sow that is not yet pregnant
Conceives(preggers, roll, odds) == ~preggers /\ roll < odds

\* variant: the roll is made for every sow and a pregnant sow that "wins" it
\* is taken out of the set again
AfterRollToggle(ku, sow, preggers, roll, odds) ==
    IF roll < odds
    THEN (IF preggers THEN ku \ {sow} ELSE ku \cup {sow})
    ELSE ku

\* the set after lines 44-45
AfterRoll(ku, sow, preggers, roll, odds) ==
    IF Conceives(preggers, roll, odds) THEN ku \cup {sow} ELSE ku

\* variant: the row does not carry the loop variable
RowNoSim(s, item) ==
    [Simulation |-> 0, Female |-> item[1],
     MatingCount |-> item[2].total,
     WhilePregnant |-> item[2].while_pregnant,
     WhileNotPregnant |-> item[2].while_unpregnant]

\* one row of all_matings
Row(s, item) ==
    [Simulation |-> s, Female |-> item[1],
     MatingCount |-> item[2].total,
     WhilePregnant |-> item[2].while_pregnant,
     WhileNotPregnant |-> item[2].while_unpregnant]

\* the rows one session_log contributes, in iteration order
Rows(s, log) == [i \in 1..Len(Items(log)) |-> Row(s, Items(log)[i])]

\* ---- initial state: run_simulations entered, all_matings = [] -----------
Init ==
    /\ n_females \in FemaleCounts
    /\ target_pregnancies \in Targets
    /\ simulations \in SimulationCounts
    /\ pregnancy_chance \in PregnancyChances
    /\ pregnant_chance \in PregnantChances
    /\ pc = "for"
    /\ sim = 0
    /\ knocked_up = {}
    /\ shag_stats = << >>
    /\ lucky_sow = NoSow
    /\ already_preggers = FALSE
    /\ all_matings = << >>
    /\ wasted = 0

\* ---- actions ------------------------------------------------------------
\* for sim in range(simulations): call simulate_matings (lines 67-68, 27-31)
CallSimulateMatings ==
    /\ pc = "for"
    /\ sim < simulations
    /\ knocked_up' = {}
    /\ shag_stats' = NewShagStats
    /\ lucky_sow' = NoSow
    /\ already_preggers' = FALSE
    /\ pc' = "while"
    /\ UNCHANGED <<config, sim, all_matings, wasted>>

\* variant: the roll (lines 44-45) is made before the counters are updated
\* and the pregnancy test of line 35 is made after it
TrialRollFirst(sow, roll) ==
    /\ pc = "while"
    /\ LoopCond
    /\ LET before == sow \in knocked_up
           odds == IF before THEN pregnant_chance ELSE pregnancy_chance
           ku == AfterRoll(knocked_up, sow, before, roll, odds)
           preggers == sow \in ku
       IN /\ wasted < MaxWasted \/ Conceives(before, roll, odds)
          /\ wasted' = IF Conceives(before, roll, odds)
                       THEN wasted ELSE wasted + 1
          /\ lucky_sow' = sow
          /\ already_preggers' = preggers
          /\ shag_stats' = [shag_stats EXCEPT ![sow] = Bump(@, preggers)]
          /\ knocked_up' = ku
    /\ UNCHANGED <<config, pc, sim, all_matings>>

\* one iteration of the while loop (lines 33-45); sow is the randint draw,
\* roll the random.random() draw
Trial(sow, roll) ==
    /\ pc = "while"
    /\ LoopCond
    /\ LET preggers == sow \in knocked_up
           odds == IF preggers THEN pregnant_chance ELSE pregnancy_chance
       IN /\ wasted < MaxWasted \/ Conceives(preggers, roll, odds)
          /\ wasted' = IF Conceives(preggers, roll, odds)
                       THEN wasted ELSE wasted + 1
          /\ lucky_sow' = sow
          /\ already_preggers' = preggers
          /\ shag_stats' = [shag_stats EXCEPT ![sow] = Bump(@, preggers)]
          /\ knocked_up' = AfterRoll(knocked_up, sow, preggers, roll, odds)
    /\ UNCHANGED <<config, pc, sim, all_matings>>

\* the while condition is false: return shag_stats (line 47)
SimulateMatingsReturn ==
    /\ pc = "while"
    /\ ~LoopCond
    /\ pc' = "append"
    /\ UNCHANGED <<config, sim, knocked_up, shag_stats, lucky_sow,
                   already_preggers, all_matings, wasted>>

\* for sow_id, stats in session_log.items(): append a row (lines 75-82)
AppendRows ==
    /\ pc = "append"
    /\ all_matings' = all_matings \o Rows(sim, shag_stats)
    /\ sim' = sim + 1
    /\ pc' = "for"
    /\ UNCHANGED <<config, knocked_up, shag_stats, lucky_sow,
                   already_preggers, wasted>>

\* range(simulations) is exhausted: return the DataFrame (line 84)
ReturnDataFrame ==
    /\ pc = "for"
    /\ sim >= simulations
    /\ pc' = "done"
    /\ UNCHANGED <<config, sim, knocked_up, shag_stats, lucky_sow,
                   already_preggers, all_matings, wasted>>

DoTrial == \E sow \in Sows, roll \in Draws : Trial(sow, roll)

Next ==
    \/ CallSimulateMatings
    \/ DoTrial
    \/ SimulateMatingsReturn
    \/ AppendRows
    \/ ReturnDataFrame

Spec == Init /\ [][Next]_vars

\* a trial on which the selected sow becomes pregnant
Conceive ==
    \E sow \in Sows \ knocked_up, roll \in Draws :
        roll < pregnancy_chance /\ Trial(sow, roll)

\* Fairness of the draws: a conception that stays possible eventually
\* happens; the interpreter always takes the next control step.
LiveSpec ==
    /\ Spec
    /\ WF_vars(Conceive)
    /\ WF_vars(CallSimulateMatings)
    /\ WF_vars(SimulateMatingsReturn)
    /\ WF_vars(AppendRows)
    /\ WF_vars(ReturnDataFrame)

TypeOK ==
    /\ pc \in {"for", "while", "append", "done"}
    /\ knocked_up \subseteq Sows
    /\ lucky_sow \in Sows \cup {NoSow}

\* ---- configurations -----------------------------------------------------
InvalidConfig ==
    \/ n_females <= 0
    \/ simulations <= 0
    \/ pregnancy_chance < 0 \/ pregnancy_chance > 100
    \/ pregnant_chance < 0 \/ pregnant_chance > 100

Returned == pc = "append"

PregnantCounted == {s \in DOMAIN shag_stats : shag_stats[s].while_pregnant > 0}

\* ---- C1 -----------------------------------------------------------------
\* C1: with n_females >= 1 and target_pregnancies >= 1, whenever
\* simulate_matings returns, exactly min(target_pregnancies, n_females)
\* sows are pregnant.
C1_ExactSuccessCount ==
    (Returned /\ n_females >= 1 /\ target_pregnancies >= 1)
        => Cardinality(knocked_up) = Min(target_pregnancies, n_females)

C1_Witness ==
    /\ Returned
    /\ n_females = 2 /\ target_pregnancies = 1
    /\ Cardinality(knocked_up) = 1
    /\ Wasted >= 1

\* ---- C2 -----------------------------------------------------------------
\* C2: in every state of a run each sow's total equals while_pregnant plus
\* while_unpregnant, and so does every row collected by run_simulations.
C2_TotalIsSum ==
    /\ \A s \in DOMAIN shag_stats :
          shag_stats[s].total =
              shag_stats[s].while_pregnant + shag_stats[s].while_unpregnant
    /\ \A i \in DOMAIN all_matings :
          all_matings[i].MatingCount =
              all_matings[i].WhilePregnant + all_matings[i].WhileNotPregnant

C2_Witness ==
    /\ pc = "done"
    /\ \E i \in DOMAIN all_matings :
          /\ all_matings[i].WhilePregnant >= 1
          /\ all_matings[i].WhileNotPregnant >= 1
          /\ all_matings[i].MatingCount >= 2

\* ---- C3 -----------------------------------------------------------------
\* C3: for n_females >= 1 and simulations >= 1, the returned table has
\* exactly simulations * n_females rows, exactly one for each pair of a
\* run index in [0, simulations) and a sow index in [0, n_females).
C3_OneRowPerPair ==
    (pc = "done" /\ n_females >= 1 /\ simulations >= 1) =>
        /\ Len(all_matings) = simulations * n_females
        /\ \A s \in 0..(simulations - 1), f \in 0..(n_females - 1) :
              Cardinality({i \in DOMAIN all_matings :
                              /\ all_matings[i].Simulation = s
                              /\ all_matings[i].Female = f}) = 1

C3_Witness ==
    /\ pc = "done"
    /\ n_females = 2 /\ simulations = 2
    /\ Len(all_matings) = 4

\* ---- C4 -----------------------------------------------------------------
\* C4: the rows are ordered by run index and, within a run, by sow index:
\* an earlier row is lexicographically strictly below every later row.
C4_RowsSorted ==
    \A i, j \in DOMAIN all_matings :
        i < j =>
            \/ all_matings[i].Simulation < all_matings[j].Simulation
            \/ /\ all_matings[i].Simulation = all_matings[j].Simulation
               /\ all_matings[i].Female < all_matings[j].Female

C4_Witness ==
    /\ pc = "done"
    /\ Len(all_matings) >= 4
    /\ all_matings[1].Simulation = 0 /\ all_matings[1].Female = 0
    /\ all_matings[2].Simulation = 0 /\ all_matings[2].Female = 1
    /\ all_matings[3].Simulation = 1 /\ all_matings[3].Female = 0

\* ---- C5 -----------------------------------------------------------------
\* C5: with an invalid configuration (n_females <= 0, a probability outside
\* [0,1], simulations <= 0) no simulation work is started and no result is
\* returned.
C5_FailFast ==
    InvalidConfig => pc \notin {"while", "append", "done"}

\* ---- C6 -----------------------------------------------------------------
\* C6: every sow with while_pregnant > 0 is pregnant, and when a run of a
\* population of at least one sow ends, at most
\* min(target_pregnancies, n_females) sows have while_pregnant > 0.
C6_PregnantCounterOnlyForPregnant ==
    /\ PregnantCounted \subseteq knocked_up
    /\ (Returned /\ n_females >= 1) =>
          Cardinality(PregnantCounted) <= Min(target_pregnancies, n_females)

C6_Witness ==
    /\ Returned
    /\ n_females = 2 /\ target_pregnancies = 2
    /\ Cardinality(PregnantCounted) = 1
    /\ Cardinality(knocked_up) = 2

\* ---- C7 -----------------------------------------------------------------
\* C7: with pregnancy_chance = 0, n_females >= 1 and target_pregnancies >= 1
\* no sow ever becomes pregnant, the while condition stays true and
\* simulate_matings never returns, whatever pregnant_chance is.
C7_NeverReturns ==
    (pregnancy_chance = 0 /\ n_females >= 1 /\ target_pregnancies >= 1) =>
        /\ knocked_up = {}
        /\ pc # "append"
        /\ pc = "while" => LoopCond
        /\ all_matings = << >>

C7_Witness ==
    /\ pregnancy_chance = 0 /\ pregnant_chance = 100
    /\ n_females >= 1 /\ target_pregnancies >= 1
    /\ pc = "while"
    /\ Wasted >= 2

\* ---- C8 -----------------------------------------------------------------
\* C8: with pregnancy_chance > 0 and n_females >= 1, under fair draws every
\* run eventually returns; with target_pregnancies >= n_females it returns
\* with every sow pregnant, and with target_pregnancies = 0 it returns
\* after zero trials with all counters 0.
C8_Terminates ==
    /\ (pc = "while" /\ pregnancy_chance > 0 /\ n_females >= 1)
          ~> Returned
    /\ [](  (Returned /\ pregnancy_chance > 0 /\ n_females >= 1
              /\ target_pregnancies >= n_females)
          => knocked_up = Sows)
    /\ [](  (Returned /\ pregnancy_chance > 0 /\ n_females >= 1
              /\ target_pregnancies = 0)
          => (shag_stats = NewShagStats /\ lucky_sow = NoSow))

C8_Witness ==
    /\ Returned
    /\ pregnancy_chance = 50
    /\ n_females = 2 /\ target_pregnancies = 2
    /\ knocked_up = Sows
    /\ Wasted >= 1

\* ---- C9 -----------------------------------------------------------------
\* C9: a pregnant sow has while_unpregnant >= 1; a trial of a sow that is
\* not pregnant before it (the flip included) increments only
\* while_unpregnant, a trial of a pregnant sow only while_pregnant, and
\* once while_pregnant is positive while_unpregnant stays as it is.
C9_TwoPhases ==
    /\ [](\A s \in knocked_up : shag_stats[s].while_unpregnant >= 1)
    /\ [][ (pc = "while" /\ pc' = "while") =>
             \A s \in Sows :
                /\ (s \notin knocked_up
                      /\ shag_stats'[s].total # shag_stats[s].total) =>
                     /\ shag_stats'[s].while_unpregnant =
                            shag_stats[s].while_unpregnant + 1
                     /\ shag_stats'[s].while_pregnant =
                            shag_stats[s].while_pregnant
                /\ (s \in knocked_up
                      /\ shag_stats'[s].total # shag_stats[s].total) =>
                     /\ shag_stats'[s].while_pregnant =
                            shag_stats[s].while_pregnant + 1
                     /\ shag_stats'[s].while_unpregnant =
                            shag_stats[s].while_unpregnant
                /\ shag_stats[s].while_pregnant > 0 =>
                     shag_stats'[s].while_unpregnant =
                         shag_stats[s].while_unpregnant
         ]_vars

C9_Witness ==
    /\ pc = "while"
    /\ \E s \in knocked_up :
          /\ shag_stats[s].while_unpregnant >= 2
          /\ shag_stats[s].while_pregnant >= 1

\* ---- C10 ----------------------------------------------------------------
\* C10: a trial never removes a sow from knocked_up and adds at most the
\* selected sow; a trial that selects a pregnant sow leaves knocked_up as it
\* is for every pregnant_chance; a trial changes the counters of the
\* selected sow only.
C10_StickyAndInert ==
    [][ (pc = "while" /\ pc' = "while") =>
          /\ knocked_up \subseteq knocked_up'
          /\ (knocked_up' \ knocked_up) \subseteq {lucky_sow'}
          /\ Cardinality(knocked_up' \ knocked_up) <= 1
          /\ (lucky_sow' \in knocked_up /\ shag_stats' # shag_stats) =>
                knocked_up' = knocked_up
          /\ \A s \in Sows \ {lucky_sow'} : shag_stats'[s] = shag_stats[s]
      ]_vars

C10_Witness ==
    /\ pc = "while"
    /\ pregnant_chance = 100
    /\ already_preggers
    /\ lucky_sow \in knocked_up
    /\ shag_stats[lucky_sow].while_pregnant >= 1
    /\ Cardinality(knocked_up) = 1
====
